---- MODULE Spec2Model ----
(***************************************************************************)
(* ModelOutput of src/config_model_output.py: the constructor, the         *)
(* valid-time file resolver find_valid_files and the reader read_file.     *)
(*                                                                         *)
(* Python strings are sequences of one-character strings, so that slicing, *)
(* rfind, split, sorting, glob matching and strptime are computed as the   *)
(* code computes them.                                                     *)
(***************************************************************************)
EXTENDS Integers, Sequences, FiniteSets, TLC

\* ------------------------------------------------------------------ bounds
\* The largest number of files in the directory tree under main_dir.
MaxFiles == 3

\* ----------------------------------------------------------- Python strings
\* The printable ASCII characters in code-point order: 32 (space) .. 95 (_) and
\* 97 (a) .. 126 (~).
AsciiLow == <<" ", "!", "\"", "#", "$", "%", "&", "'", "(", ")", "*", "+", ",", "-", ".", "/", "0", "1", "2", "3", "4", "5", "6", "7", "8", "9", ":", ";", "<", "=", ">", "?", "@", "A", "B", "C", "D", "E", "F", "G", "H", "I", "J", "K", "L", "M", "N", "O", "P", "Q", "R", "S", "T", "U", "V", "W", "X", "Y", "Z", "[", "\\", "]", "^", "_">>

AsciiHigh == <<"a", "b", "c", "d", "e", "f", "g", "h", "i", "j", "k", "l", "m", "n", "o", "p", "q", "r", "s", "t", "u", "v", "w", "x", "y", "z", "{", "|", "}", "~">>

OrdTable ==
  [c \in {AsciiLow[i] : i \in 1..Len(AsciiLow)} \cup {AsciiHigh[i] : i \in 1..Len(AsciiHigh)} |->
     IF \E i \in 1..Len(AsciiLow) : AsciiLow[i] = c
     THEN 31 + (CHOOSE i \in 1..Len(AsciiLow) : AsciiLow[i] = c)
     ELSE 96 + (CHOOSE i \in 1..Len(AsciiHigh) : AsciiHigh[i] = c)]

\* ord(c); tab and newline are the only characters used outside the table.
Ord(c) == IF c = "\t" THEN 9 ELSE IF c = "\n" THEN 10 ELSE OrdTable[c]

Digits == {"0", "1", "2", "3", "4", "5", "6", "7", "8", "9"}

DigitVal(c) == Ord(c) - 48

IsSpace(c) == c \in {" ", "\t", "\n"}

\* str.lower() on one character.
LowerChar(c) == IF Ord(c) \in 65..90 THEN AsciiHigh[Ord(c) - 64] ELSE c

\* str.lower().
Lower(s) == [i \in 1..Len(s) |-> LowerChar(s[i])]

\* str.strip(): leading and trailing whitespace removed.
Strip(s) ==
  LET idx == {i \in 1..Len(s) : ~IsSpace(s[i])}
      Min(S) == CHOOSE x \in S : \A y \in S : x <= y
      Max(S) == CHOOSE x \in S : \A y \in S : x >= y
  IN IF idx = {} THEN << >> ELSE SubSeq(s, Min(idx), Max(idx))

\* A slice bound as Python normalises it: negative counts from the end, then
\* clamped to 0..len.
ClampIndex(i, n) ==
  LET j == IF i < 0 THEN i + n ELSE i
  IN IF j < 0 THEN 0 ELSE IF j > n THEN n ELSE j

\* s[a:b] with 0-based Python indices (either may be negative or out of range).
Slice(s, a, b) ==
  LET lo == ClampIndex(a, Len(s))
      hi == ClampIndex(b, Len(s))
  IN IF lo >= hi THEN << >> ELSE SubSeq(s, lo + 1, hi)

\* s[a:]
SliceFrom(s, a) == Slice(s, a, Len(s))

\* Does sub occur in s at 0-based offset i?
OccursAt(s, sub, i) ==
  /\ i >= 0
  /\ i + Len(sub) <= Len(s)
  /\ \A k \in 1..Len(sub) : s[i + k] = sub[k]

\* sub in s
Contains(s, sub) == \E i \in 0..(Len(s) - Len(sub)) : OccursAt(s, sub, i)

\* s.rfind(sub): the highest 0-based offset of sub in s, or -1.
RFind(s, sub) ==
  LET hits == {i \in 0..(Len(s) - Len(sub)) : OccursAt(s, sub, i)}
  IN IF hits = {} THEN -1 ELSE CHOOSE i \in hits : \A j \in hits : j <= i

\* s.index(sub): the lowest 0-based offset of sub in s (-1 stands for ValueError).
Find(s, sub) ==
  LET hits == {i \in 0..(Len(s) - Len(sub)) : OccursAt(s, sub, i)}
  IN IF hits = {} THEN -1 ELSE CHOOSE i \in hits : \A j \in hits : i <= j

\* s.endswith(e)
EndsWith(s, e) == Len(e) <= Len(s) /\ OccursAt(s, e, Len(s) - Len(e))

\* s.startswith(e)
StartsWith(s, e) == OccursAt(s, e, 0)

\* "".join(s.split(sep)): s with the occurrences of sep, found left to right
\* without overlap, removed. sep is not empty.
RECURSIVE RemoveAll(_, _)
RemoveAll(s, sep) ==
  IF Find(s, sep) = -1 THEN s
  ELSE Slice(s, 0, Find(s, sep)) \o RemoveAll(SliceFrom(s, Find(s, sep) + Len(sep)), sep)

\* s.split("/"): the components of a path or of a glob pattern.
RECURSIVE SplitSlash(_)
SplitSlash(s) ==
  LET i == Find(s, <<"/">>)
  IN IF i = -1 THEN <<s>>
     ELSE <<Slice(s, 0, i)>> \o SplitSlash(SliceFrom(s, i + 1))

\* s < t as Python compares strings: by code point at the first difference, a
\* proper prefix first.
StrLess(s, t) ==
  LET n == IF Len(s) < Len(t) THEN Len(s) ELSE Len(t)
      diff == {i \in 1..n : s[i] # t[i]}
      first == CHOOSE i \in diff : \A j \in diff : i <= j
  IN IF diff = {} THEN Len(s) < Len(t) ELSE Ord(s[first]) < Ord(t[first])

\* sorted(S) for a set of strings.
RECURSIVE SortedStrings(_)
SortedStrings(S) ==
  IF S = {} THEN << >>
  ELSE LET m == CHOOSE x \in S : \A y \in S \ {x} : StrLess(x, y)
       IN <<m>> \o SortedStrings(S \ {m})

\* (a1, b1) < (a2, b2) as Python compares tuples of strings.
PairLess(p, q) == StrLess(p[1], q[1]) \/ (p[1] = q[1] /\ StrLess(p[2], q[2]))

\* sorted(S) for a set of pairs of strings.
RECURSIVE SortedPairs(_)
SortedPairs(S) ==
  IF S = {} THEN << >>
  ELSE LET m == CHOOSE x \in S : \A y \in S \ {x} : PairLess(x, y)
       IN <<m>> \o SortedPairs(S \ {m})

\* The elements of seq at the indices idx, in the order of seq: what a list
\* comprehension with a condition keeps.
RECURSIVE AtIndices(_, _)
AtIndices(seq, idx) ==
  IF idx = {} THEN << >>
  ELSE LET m == CHOOSE i \in idx : \A j \in idx : i <= j
       IN <<seq[m]>> \o AtIndices(seq, idx \ {m})

\* The elements of a sequence.
Range(seq) == {seq[i] : i \in 1..Len(seq)}

\* Every ordering of a finite set: the orders in which a directory scan may
\* return its entries.
Orderings(S) ==
  {o \in [1..Cardinality(S) -> S] : \A i, j \in 1..Cardinality(S) : i # j => o[i] # o[j]}

\* ------------------------------------------------------------------- int()
\* int(text): whitespace stripped, an optional sign, then digits with single
\* underscores allowed between them. ok is FALSE where Python raises ValueError.
RECURSIVE DigitsValue(_, _)
DigitsValue(s, acc) ==
  IF s = << >> THEN acc
  ELSE IF s[1] = "_" THEN DigitsValue(Tail(s), acc)
  ELSE DigitsValue(Tail(s), 10 * acc + DigitVal(s[1]))

IntOfBody(body, negative) ==
  IF /\ body # << >>
     /\ \A i \in 1..Len(body) : body[i] \in Digits \cup {"_"}
     /\ body[1] \in Digits
     /\ body[Len(body)] \in Digits
     /\ \A i \in 1..(Len(body) - 1) : ~(body[i] = "_" /\ body[i + 1] = "_")
  THEN [ok |-> TRUE,
        val |-> IF negative THEN 0 - DigitsValue(body, 0) ELSE DigitsValue(body, 0)]
  ELSE [ok |-> FALSE, val |-> 0]

IntOfStripped(t) ==
  IF t # << >> /\ t[1] \in {"+", "-"} THEN IntOfBody(Tail(t), t[1] = "-")
  ELSE IntOfBody(t, FALSE)

PyInt(text) == IntOfStripped(Strip(text))

\* ------------------------------------------------------- datetime.strptime
\* s[p] for a 0-based p, or "" past the end.
CharAt(s, p) == IF p >= 0 /\ p < Len(s) THEN s[p + 1] ELSE ""

\* The lengths, in the order the regular expression of a directive tries its
\* alternatives, of the texts the directive can match at offset p of s.
\*   %Y \d\d\d\d          %m 1[0-2]|0[1-9]|[1-9]
\*   %d 3[0-1]|[1-2]\d|0[1-9]|[1-9]| [1-9]
\*   %H 2[0-3]|[0-1]\d|\d %M [0-5]\d|\d      %S 6[0-1]|[0-5]\d|\d
DirectiveOptions(letter, s, p) ==
  LET a == CharAt(s, p)
      b == CharAt(s, p + 1)
      opt(cond, n) == IF cond THEN <<n>> ELSE << >>
  IN CASE letter = "Y" ->
            opt(\A k \in 0..3 : CharAt(s, p + k) \in Digits, 4)
       [] letter = "m" ->
            opt((a = "1" /\ b \in {"0", "1", "2"}) \/ (a = "0" /\ b \in Digits \ {"0"}), 2)
            \o opt(a \in Digits \ {"0"}, 1)
       [] letter = "d" ->
            opt(\/ (a = "3" /\ b \in {"0", "1"})
                \/ (a \in {"1", "2"} /\ b \in Digits)
                \/ (a = "0" /\ b \in Digits \ {"0"}), 2)
            \o opt(a \in Digits \ {"0"}, 1)
            \o opt(a = " " /\ b \in Digits \ {"0"}, 2)
       [] letter = "H" ->
            opt((a = "2" /\ b \in {"0", "1", "2", "3"}) \/ (a \in {"0", "1"} /\ b \in Digits), 2)
            \o opt(a \in Digits, 1)
       [] letter = "M" ->
            opt(a \in {"0", "1", "2", "3", "4", "5"} /\ b \in Digits, 2)
            \o opt(a \in Digits, 1)
       [] letter = "S" ->
            opt((a = "6" /\ b \in {"0", "1"})
                \/ (a \in {"0", "1", "2", "3", "4", "5"} /\ b \in Digits), 2)
            \o opt(a \in Digits, 1)
       [] OTHER -> << >>

NoMatch == [ok |-> FALSE]

\* The fields of a datetime that strptime starts from.
DefaultFields == [Y |-> 1900, m |-> 1, d |-> 1, H |-> 0, M |-> 0, S |-> 0]

\* The first match, in the backtracking order of re.match, of the rest of the
\* format fmt against s from offset p: [ok, end, f] or NoMatch.
RECURSIVE MatchFrom(_, _, _, _)
RECURSIVE TryOptions(_, _, _, _, _, _)
MatchFrom(fmt, s, p, f) ==
  IF fmt = << >> THEN [ok |-> TRUE, end |-> p, f |-> f]
  ELSE IF fmt[1] = "%" /\ Len(fmt) >= 2
       THEN TryOptions(DirectiveOptions(fmt[2], s, p), fmt[2], SliceFrom(fmt, 2), s, p, f)
  ELSE IF CharAt(s, p) = fmt[1] THEN MatchFrom(Tail(fmt), s, p + 1, f)
  ELSE NoMatch

TryOptions(opts, letter, rest, s, p, f) ==
  IF opts = << >> THEN NoMatch
  ELSE LET r == MatchFrom(rest, s, p + opts[1],
                          [f EXCEPT ![letter] = PyInt(Slice(s, p, p + opts[1])).val])
       IN IF r.ok THEN r ELSE TryOptions(Tail(opts), letter, rest, s, p, f)

IsLeap(y) == y % 4 = 0 /\ (y % 100 # 0 \/ y % 400 = 0)

DaysInMonth(y, m) ==
  IF m = 2 THEN (IF IsLeap(y) THEN 29 ELSE 28)
  ELSE IF m \in {4, 6, 9, 11} THEN 30 ELSE 31

RECURSIVE DaysBeforeMonth(_, _)
DaysBeforeMonth(y, m) ==
  IF m <= 1 THEN 0 ELSE DaysBeforeMonth(y, m - 1) + DaysInMonth(y, m - 1)

DaysBeforeYear(y) ==
  LET z == y - 1 IN 365 * z + (z \div 4) - (z \div 100) + (z \div 400)

\* datetime.strptime(s, fmt): ok is FALSE where it raises ValueError (no match,
\* unconverted data remains, or a date that does not exist); else the datetime
\* as its day number (date.toordinal) and the second of that day.
DatetimeOf(f) ==
  IF f.Y < 1 \/ f.d > DaysInMonth(f.Y, f.m) \/ f.S > 59
  THEN [ok |-> FALSE, days |-> 0, seconds |-> 0]
  ELSE [ok |-> TRUE,
        days |-> DaysBeforeYear(f.Y) + DaysBeforeMonth(f.Y, f.m) + f.d,
        seconds |-> f.H * 3600 + f.M * 60 + f.S]

DatetimeOfMatch(r, length) ==
  IF r.ok /\ r.end = length THEN DatetimeOf(r.f)
  ELSE [ok |-> FALSE, days |-> 0, seconds |-> 0]

Strptime(s, fmt) == DatetimeOfMatch(MatchFrom(fmt, s, 0, DefaultFields), Len(s))

\* (a - b).total_seconds() for two datetimes. The two the resolver subtracts
\* start with the same four year digits, so the difference is under a year.
TotalSeconds(a, b) == (a.days - b.days) * 86400 + (a.seconds - b.seconds)

\* int(seconds / 3600.): the quotient truncated toward zero.
TruncHours(seconds) ==
  IF seconds >= 0 THEN seconds \div 3600 ELSE 0 - ((0 - seconds) \div 3600)

\* --------------------------------------------------------------- glob.glob
\* fnmatch of one path component against one pattern component ("*" any text,
\* "?" any one character; "**" is "*" since glob is not called recursively):
\* name from its i-th character on against pat from its j-th on.
RECURSIVE FnMatchFrom(_, _, _, _)
FnMatchFrom(name, i, pat, j) ==
  IF j > Len(pat) THEN i > Len(name)
  ELSE IF pat[j] = "*"
       THEN \/ FnMatchFrom(name, i, pat, j + 1)
            \/ (i <= Len(name) /\ FnMatchFrom(name, i + 1, pat, j))
  ELSE /\ i <= Len(name)
       /\ (pat[j] = "?" \/ name[i] = pat[j])
       /\ FnMatchFrom(name, i + 1, pat, j + 1)

FnMatch(name, pat) == FnMatchFrom(name, 1, pat, 1)

HasMagic(pat) == \E i \in 1..Len(pat) : pat[i] \in {"*", "?", "["}

\* A component with wildcards does not match a hidden name unless the pattern
\* itself starts with a dot; a component without wildcards must be equal.
ComponentMatches(name, pat) ==
  IF HasMagic(pat)
  THEN /\ FnMatch(name, pat)
       /\ (StartsWith(name, <<".">>) => StartsWith(pat, <<".">>))
  ELSE name = pat

\* The files of a tree and the directories that hold them.
Entries(files) ==
  files \cup UNION {{Slice(f, 0, i) : i \in {j \in 1..Len(f) : CharAt(f, j) = "/"}} : f \in files}

\* glob.glob(pattern) over the tree: the entries whose components match the
\* pattern's components one by one (as a set: the order is the scan's).
Glob(pattern, files) ==
  LET pc == SplitSlash(pattern)
  IN {e \in Entries(files) :
        LET ec == SplitSlash(e)
        IN /\ Len(ec) = Len(pc)
           /\ \A i \in 1..Len(pc) : ComponentMatches(ec[i], pc[i])}

\* ------------------------------------------------------------ src/config.py
S_wrf == <<"w", "r", "f">>
S_geogrid == <<"w", "r", "f", "-", "g", "e", "o", "g", "r", "i", "d">>
S_rrfs == <<"r", "r", "f", "s">>
S_hrrr == <<"h", "r", "r", "r">>
S_template == <<"t", "e", "m", "p", "l", "a", "t", "e">>
S_netcdf == <<"n", "e", "t", "c", "d", "f">>
S_grib2 == <<"g", "r", "i", "b", "2">>

\* config.time_format; None (wrf-geogrid) is the empty format.
time_format ==
  [m \in {S_wrf, S_geogrid, S_rrfs, S_hrrr} |->
     IF m = S_wrf THEN <<"%", "Y", "-", "%", "m", "-", "%", "d", "_", "%", "H", ":", "%", "M", ":", "%", "S">>
     ELSE IF m = S_geogrid THEN << >>
     ELSE <<"%", "Y", "%", "m", "%", "d", "%", "H">>]

\* supported_models.keys(), in the dict's order.
supported_models == <<S_template, S_wrf, S_geogrid, S_rrfs, S_hrrr>>

\* supported_formats.keys()
supported_formats == <<S_netcdf, S_grib2>>

\* supported_models[m]['search_path_modification'] of the four models that have
\* dimensions; a key the entry lacks is no field of the record.
search_path_modification ==
  [m \in {S_wrf, S_geogrid, S_rrfs, S_hrrr} |->
     IF m = S_wrf
     THEN [use_domain |-> TRUE, main_dir_sub_dir_div |-> << >>,
           sub_dir_file_div |-> <<"*", "*", "/">>, prefix |-> <<"w", "r", "f", "o", "u", "t", "_">>, suffix |-> <<"*">>]
     ELSE IF m = S_geogrid
     THEN [use_domain |-> TRUE, main_dir_sub_dir_div |-> <<"g", "e", "o", "_", "e", "m", ".">>, suffix |-> <<".", "n", "c">>]
     ELSE IF m = S_rrfs
     THEN [use_domain |-> FALSE, main_dir_sub_dir_div |-> << >>,
           sub_dir_file_div |-> <<"*", "*", "/">>, prefix |-> <<"d", "y", "n">>, suffix |-> <<"*">>]
     ELSE [use_domain |-> FALSE, main_dir_sub_dir_div |-> << >>,
           sub_dir_file_div |-> <<"*", "*", "/">>, prefix |-> <<"h", "r", "r", "r", ".">>, suffix |-> <<"*">>]]

\* -------------------------------------------------------------- exceptions
NoError == [type |-> "none", msg |-> << >>]

Error(type, msg) == [type |-> type, msg |-> msg]

\* repr() of a string without quotes or escapes in it.
ReprStr(s) == <<"'">> \o s \o <<"'">>

\* repr() of a list of strings.
RECURSIVE JoinRepr(_)
JoinRepr(list) ==
  IF list = << >> THEN << >>
  ELSE IF Len(list) = 1 THEN ReprStr(list[1])
  ELSE ReprStr(list[1]) \o <<",", " ">> \o JoinRepr(Tail(list))

ReprList(list) == <<"[">> \o JoinRepr(list) \o <<"]">>

\* ------------------------------------------------------------------- state
VARIABLES
  pc,            \* "new": before __init__; "ready": constructed; "dead": __init__ raised
  model_name, data_format, main_dir, sub_dir, valid_time, domain,
  valid_files,   \* << >> (None) or <<id>>: a reference to a list of the heap
  unread_files,  \* << >> (None) or <<id>>
  heap,          \* the list objects the two attributes refer to, by id
  ds,            \* << >> (None) or <<path>>: the dataset opened from path
  fs,            \* the files of the directory tree
  err,           \* what the last call raised, or NoError
  last_call,     \* the last method called
  resolved,      \* history: << >>, or <<list>> that valid_files held right after
                 \* the last find_valid_files that set it
  n_read         \* history: successful read_file calls since then

vars == <<pc, model_name, data_format, main_dir, sub_dir, valid_time, domain,
          valid_files, unread_files, heap, ds, fs, err, last_call, resolved, n_read>>

request == <<model_name, data_format, main_dir, sub_dir, valid_time, domain>>

\* The list an attribute refers to.
Deref(ref) == heap[ref[1]]

\* ------------------------------------------------------------------ inputs
\* A forecast archive of base-time directories with forecast-hour files (padded
\* and unpadded hours, an hour held twice) and of flat files named by valid
\* time (one carries the year only).
TreeBaseTime ==
  { <<"/", "d", "/", "2", "0", "2", "3", "0", "1", "0", "1", "0", "0", "/", "d", "y", "n", "f", "0", "0", "2">>,
    <<"/", "d", "/", "2", "0", "2", "3", "0", "1", "0", "1", "0", "0", "/", "d", "y", "n", "f", "0", "0", "2", ".", "n", "c">>,
    <<"/", "d", "/", "2", "0", "2", "3", "0", "1", "0", "1", "0", "0", "/", "d", "y", "n", "f", "2">>,
    <<"/", "d", "/", "2", "0", "2", "3", "0", "1", "0", "1", "0", "0", "/", "d", "y", "n", "f", "2", "0">>,
    <<"/", "d", "/", "s", "/", "d", "y", "n", "2", "0", "2", "3", "0", "1", "0", "1", "0", "2">>,
    <<"/", "d", "/", "t", "/", "d", "y", "n", "2", "0", "2", "3", "0", "1", "0", "1", "0", "2">>,
    <<"/", "d", "/", "s", "/", "d", "y", "n", "2", "0", "2", "3">> }

\* Directories named by valid time that hold the forecasts of several
\* initialisations (file names with an init hour and a forecast hour).
TreeValidTime ==
  { <<"/", "d", "/", "2", "0", "2", "3", "0", "1", "0", "1", "1", "2", "/", "h", "r", "r", "r", ".", "t", "0", "2", "z", ".", "f", "1", "0">>,
    <<"/", "d", "/", "2", "0", "2", "3", "0", "1", "0", "1", "1", "2", "/", "h", "r", "r", "r", ".", "t", "0", "3", "z", ".", "f", "9">>,
    <<"/", "d", "/", "2", "0", "2", "3", "0", "1", "0", "1", "1", "2", "/", "h", "r", "r", "r", ".", "t", "0", "0", "z", ".", "f", "1", "1">>,
    <<"/", "d", "/", "2", "0", "2", "3", "0", "1", "0", "1", "1", "2", "/", "h", "r", "r", "r", ".", "t", "1", "2", "z">>,
    <<"/", "d", "/", "2", "0", "2", "3", "0", "1", "0", "1", "1", "2", "/", "h", "r", "r", "r", ".", "t", "0", "6", "z">>,
    <<"/", "d", "/", "2", "0", "2", "3", "0", "1", "0", "1", "1", "2", "/", "d", "y", "n", "f", "0", "0", "0">>,
    <<"/", "d", "/", "2", "0", "2", "3", "0", "1", "0", "1", "1", "1", "/", "h", "r", "r", "r", ".", "t", "1", "1", "z", ".", "f", "0", "1">> }

TreeWrf ==
  { <<"/", "d", "/", "s", "/", "w", "r", "f", "o", "u", "t", "_", "d", "0", "1", "_", "2", "0", "2", "3", "-", "0", "1", "-", "0", "1", "_", "0", "2", ":", "0", "0", ":", "0", "0">>,
    <<"/", "d", "/", "s", "/", "w", "r", "f", "o", "u", "t", "_", "d", "0", "1", "_", "2", "0", "2", "3", "-", "0", "1", "-", "0", "1", "_", "0", "3", ":", "0", "0", ":", "0", "0">>,
    <<"/", "d", "/", "s", "/", "w", "r", "f", "o", "u", "t", "_", "d", "0", "1", "_", "2", "0", "2", "3">>,
    <<"/", "d", "/", "s", "/", "w", "r", "f", "o", "u", "t", "_", "d", "0", "2", "_", "2", "0", "2", "3", "-", "0", "1", "-", "0", "1", "_", "0", "2", ":", "0", "0", ":", "0", "0">>,
    <<"/", "d", "/", "t", "/", "w", "r", "f", "o", "u", "t", "_", "d", "0", "1", "_", "2", "0", "2", "3", "-", "0", "1", "-", "0", "1", "_", "0", "2", ":", "0", "0", ":", "0", "0">> }

TreeGeogrid ==
  { <<"/", "d", "/", "g", "e", "o", "_", "e", "m", ".", "d", "0", "1", ".", "n", "c">>,
    <<"/", "d", "/", "a", "/", "g", "e", "o", "_", "e", "m", ".", "d", "0", "1", ".", "n", "c">>,
    <<"/", "d", "/", "b", "/", "g", "e", "o", "_", "e", "m", ".", "d", "0", "1", ".", "n", "c">>,
    <<"/", "d", "/", "a", "/", "g", "e", "o", "_", "e", "m", ".", "d", "0", "2", ".", "n", "c">> }

Request(m, f, md, sd, vt, dom, tree) ==
  [model_name |-> m, data_format |-> f, main_dir |-> md, sub_dir |-> sd,
   valid_time |-> vt, domain |-> dom, tree |-> tree]

\* The constructor calls made: the arguments as the user writes them, and the
\* tree main_dir names.
Requests ==
  { Request(S_rrfs, S_netcdf, <<"/", "d">>, << >>, <<"2", "0", "2", "3", "0", "1", "0", "1", "0", "0">>, <<"d", "0", "1">>, TreeBaseTime),
    Request(S_rrfs, S_netcdf, <<"/", "d">>, << >>, <<"2", "0", "2", "3", "0", "1", "0", "1", "0", "2">>, <<"d", "0", "1">>, TreeBaseTime),
    Request(S_hrrr, S_grib2, <<"/", "d", "/">>, << >>, <<"2", "0", "2", "3", "0", "1", "0", "1", "1", "2">>, <<"d", "0", "1">>, TreeValidTime),
    Request(S_rrfs, S_grib2, <<"/", "d", "/">>, << >>, <<"2", "0", "2", "3", "0", "1", "0", "1", "1", "2">>, <<"d", "0", "1">>, TreeValidTime) }
  \cup
  { Request(<<" ", "W", "R", "F", " ">>, <<"N", "e", "t", "C", "D", "F">>, <<"/", "d", "/">>, <<"s">>, <<"2", "0", "2", "3", "-", "0", "1", "-", "0", "1", "_", "0", "2", ":", "0", "0", ":", "0", "0">>, <<"D", "0", "1">>, TreeWrf),
    Request(S_wrf, S_grib2, <<"/", "d">>, <<"s", "*", "*", "/">>, <<"2", "0", "2", "3", "0", "1", "0", "1", "0", "2">>, <<"d", "0", "1">>, TreeWrf),
    Request(S_geogrid, S_netcdf, <<"/", "d">>, << >>, << >>, <<"d", "0", "1">>, TreeGeogrid),
    Request(S_template, S_netcdf, <<"/", "d">>, << >>, <<"2", "0", "2", "3", "0", "1", "0", "1", "0", "2">>, <<"d", "0", "1">>, TreeGeogrid),
    Request(<<"g", "f", "s">>, S_netcdf, <<"/", "d">>, << >>, <<"2", "0", "2", "3", "0", "1", "0", "1", "0", "2">>, <<"d", "0", "1">>, TreeGeogrid),
    Request(S_rrfs, <<"h", "d", "f">>, <<"/", "d">>, << >>, <<"2", "0", "2", "3", "0", "1", "0", "1", "0", "2">>, <<"d", "0", "1">>, TreeGeogrid),
    Request(<<"g", "f", "s">>, <<"h", "d", "f">>, <<"/", "d">>, << >>, <<"2", "0", "2", "3", "0", "1", "0", "1", "0", "2">>, <<"d", "0", "1">>, TreeGeogrid) }

Init ==
  \E r \in Requests :
    \E files \in SUBSET r.tree :
      /\ Cardinality(files) <= MaxFiles
      /\ pc = "new"
      /\ model_name = r.model_name
      /\ data_format = r.data_format
      /\ main_dir = r.main_dir
      /\ sub_dir = r.sub_dir
      /\ valid_time = r.valid_time
      /\ domain = r.domain
      /\ valid_files = << >>
      /\ unread_files = << >>
      /\ heap = << >>
      /\ ds = << >>
      /\ fs = files
      /\ err = NoError
      /\ last_call = "none"
      /\ resolved = << >>
      /\ n_read = 0

\* ---------------------------------------------------------------- __init__
\* _clean_parameter_values on one str attribute.
CleanValue(v) == Lower(Strip(v))

CleanMainDir(v) ==
  LET c == CleanValue(v) IN IF EndsWith(c, <<"/">>) THEN c ELSE c \o <<"/">>

CleanSubDir(v) ==
  LET c == CleanValue(v) IN IF EndsWith(c, <<"*", "*", "/">>) THEN c ELSE c \o <<"*", "*", "/">>

\* "dict_keys([...])"
ReprKeys(keys) == <<"d", "i", "c", "t", "_", "k", "e", "y", "s", "(">> \o ReprList(keys) \o <<")">>

\* _raise_for_invalid_parameter_values on the cleaned model name and data
\* format: the exception raised, or NoError.
InvalidModelName(m) == m \notin Range(supported_models)

InvalidParameterValues(m, f) ==
  IF InvalidModelName(m)
  THEN Error("ModelInputError",
             <<"M", "o", "d", "e", "l", " ", "n", "a", "m", "e", " ">> \o m \o <<" ", "i", "s", " ", "n", "o", "t", " ", "s", "u", "p", "p", "o", "r", "t", "e", "d", ".", " ", "L", "i", "s", "t", " ", "o", "f", " ", "s", "u", "p", "p", "o", "r", "t", "e", "d", " ", "m", "o", "d", "e", "l", " ", "n", "a", "m", "e", "s", ":", " ">>
             \o ReprKeys(supported_models))
  ELSE IF f \notin Range(supported_formats)
  THEN Error("ModelInputError",
             <<"D", "a", "t", "a", " ", "f", "o", "r", "m", "a", "t", " ">> \o f \o <<" ", "i", "s", " ", "n", "o", "t", " ", "s", "u", "p", "p", "o", "r", "t", "e", "d", ".", " ", "L", "i", "s", "t", " ", "o", "f", "s", "u", "p", "p", "o", "r", "t", "e", "d", " ", "d", "a", "t", "a", " ", "f", "o", "r", "m", "a", "t", "s", ":", " ">>
             \o ReprKeys(supported_formats))
  ELSE NoError

\* ModelOutput(model_name, data_format, main_dir, sub_dir, valid_time, domain).
\* Every argument drawn is a str, so _raise_for_invalid_parameter_types passes.
Construct ==
  /\ pc = "new"
  /\ model_name' = CleanValue(model_name)
  /\ data_format' = CleanValue(data_format)
  /\ main_dir' = CleanMainDir(main_dir)
  /\ sub_dir' = CleanSubDir(sub_dir)
  /\ valid_time' = CleanValue(valid_time)
  /\ domain' = CleanValue(domain)
  /\ err' = InvalidParameterValues(model_name', data_format')
  /\ pc' = IF err' = NoError THEN "ready" ELSE "dead"
  /\ last_call' = "__init__"
  /\ UNCHANGED <<valid_files, unread_files, heap, ds, fs, resolved, n_read>>

\* -------------------------------------------------------- find_valid_files
\* strip_ending_characters_from_string: each ending, in turn, is cut if the
\* string (as cut so far) ends with it.
endings_to_strip == << <<".", "n", "c">>, <<".", "n", "c", "f">>, <<".", "g", "r", "i", "b">>, <<".", "g", "r", "i", "b", "2">> >>

RECURSIVE StripEndings(_, _)
StripEndings(string, endings) ==
  IF endings = << >> THEN string
  ELSE StripEndings(IF EndsWith(string, endings[1])
                    THEN Slice(string, 0, Len(string) - Len(endings[1]))
                    ELSE string,
                    Tail(endings))

strip_ending_characters_from_string(string) == StripEndings(string, endings_to_strip)

\* The model specific file search pattern.
SearchPath ==
  IF model_name = S_wrf THEN main_dir \o sub_dir \o <<"w", "r", "f", "o", "u", "t", "_">> \o domain \o <<"*">>
  ELSE IF model_name = S_geogrid THEN main_dir \o <<"g", "e", "o", "_", "e", "m", ".">> \o domain \o <<".", "n", "c">>
  ELSE IF model_name = S_rrfs THEN main_dir \o sub_dir \o <<"d", "y", "n">> \o <<"*">>
  ELSE main_dir \o sub_dir \o <<"*">>

\* The geogrid pattern for the subdirectories.
GeogridSubdirSearchPath == main_dir \o sub_dir \o <<"g", "e", "o", "_", "e", "m", ".">> \o domain \o <<".", "n", "c">>

\* What a call does: raise err, set the two attributes (to one list object when
\* alias, else to two), or go on to glob pattern.
Raise(type, msg) ==
  [kind |-> "raise", err |-> Error(type, msg), valid |-> << >>, unread |-> << >>,
   alias |-> FALSE, pattern |-> << >>]

SetFiles(valid, unread, alias) ==
  [kind |-> "set", err |-> NoError, valid |-> valid, unread |-> unread,
   alias |-> alias, pattern |-> << >>]

Reglob(pattern) ==
  [kind |-> "reglob", err |-> NoError, valid |-> << >>, unread |-> << >>,
   alias |-> FALSE, pattern |-> pattern]

MultipleGeogridMessage(file_search) ==
  <<"M", "u", "l", "t", "i", "p", "l", "e", " ", "g", "e", "o", "g", "r", "i", "d", " ", "f", "i", "l", "e", "s", " ", "f", "o", "u", "n", "d", ":", " ">> \o ReprList(file_search)

\* Geogrid has no time: one file in main_dir, else one file in the
\* subdirectories, else "Multiple geogrid files found".
GeogridOutcomes(files) ==
  LET main == Glob(SearchPath, files)
      found == IF main = {} THEN Glob(GeogridSubdirSearchPath, files) ELSE main
  IN { IF Len(file_search) = 1
       THEN SetFiles(<<file_search[1]>>, <<file_search[1]>>, FALSE)
       ELSE Raise("ModelInputError", MultipleGeogridMessage(file_search)) :
       file_search \in Orderings(found) }

\* The message without the values of the inputs.
NoMatchMessageWithoutValues ==
  <<"F", "i", "l", "e", " ", "s", "e", "a", "r", "c", "h", " ", "r", "e", "t", "u", "r", "n", "e", "d", " ", "n", "o", " ", "m", "a", "t", "c", "h", "e", "s", ".", " ", "C", "h", "e", "c", "k", " ", "v", "a", "l", "u", "e", "s", " ", "o", "f", " ", "'", "m", "a", "i", "n", "_", "d", "i", "r", "'", ",", " ", "'", "s", "u", "b", "_", "d", "i", "r", "'", " ", "a", "n", "d", " ", "'", "v", "a", "l", "i", "d", "_", "t", "i", "m", "e", "'">>

NoMatchMessage ==
  <<"F", "i", "l", "e", " ", "s", "e", "a", "r", "c", "h", " ", "r", "e", "t", "u", "r", "n", "e", "d", " ", "n", "o", " ", "m", "a", "t", "c", "h", "e", "s", ".", " ", "C", "h", "e", "c", "k", " ", "v", "a", "l", "u", "e", "s", " ", "o", "f", " ", "'", "m", "a", "i", "n", "_", "d", "i", "r", "'", " ", "=", " ">> \o main_dir
  \o <<",", " ", "\n", "'", "s", "u", "b", "_", "d", "i", "r", "'", " ", "=", " ">> \o sub_dir \o <<",", " ", "a", "n", "d", " ", "'", "v", "a", "l", "i", "d", "_", "t", "i", "m", "e", "'", " ", "=", " ">> \o valid_time

NoForecastMessage ==
  <<"N", "o", " ", "v", "a", "l", "i", "d", " ", "f", "o", "r", "e", "c", "a", "s", "t", "s", " ", "w", "e", "r", "e", " ", "f", "o", "u", "n", "d", " ", "i", "n", " ">> \o SearchPath
  \o <<" ", "\n", "C", "h", "e", "c", "k", " ", "'", "v", "a", "l", "i", "d", "_", "t", "i", "m", "e", "'", " ", "=", " ">> \o valid_time

NotFoundMessage == <<"S", "i", "n", "g", "l", "e", " ", "v", "a", "l", "i", "d", " ", "f", "i", "l", "e", " ", "n", "o", "t", " ", "f", "o", "u", "n", "d", " ", "f", "o", "r", " ", "v", "a", "l", "i", "d", " ", "t", "i", "m", "e", " ", "=", " ">> \o valid_time

\* [i[i.rfind("f") + 1::] for i in file_format if i.rfind("f") > 0]
ForecastHours(file_format) ==
  LET kept == AtIndices(file_format,
                        {k \in 1..Len(file_format) : RFind(file_format[k], <<"f">>) > 0})
  IN [k \in 1..Len(kept) |-> SliceFrom(kept[k], RFind(kept[k], <<"f">>) + 1)]

\* [i[i.rfind("z") - 2:i.rfind("z")] for i in file_format if i.rfind("z") > 0]
InitHours(file_format) ==
  LET kept == AtIndices(file_format,
                        {k \in 1..Len(file_format) : RFind(file_format[k], <<"z">>) > 0})
  IN [k \in 1..Len(kept) |->
        Slice(kept[k], RFind(kept[k], <<"z">>) - 2, RFind(kept[k], <<"z">>))]

\* [x for _, x in sorted(zip(forecast_hours, all_files_matching_year))]: zip
\* stops at the shorter list, and the pairs sort as tuples of strings.
SortedByForecastHour(forecast_hours, all_files_matching_year) ==
  LET n == IF Len(forecast_hours) < Len(all_files_matching_year)
           THEN Len(forecast_hours) ELSE Len(all_files_matching_year)
      pairs == SortedPairs({<<forecast_hours[k], all_files_matching_year[k]>> : k \in 1..n})
  IN [k \in 1..Len(pairs) |-> pairs[k][2]]

\* [f for f in file_search if self.valid_time in f]
ContainingValidTime(files) ==
  AtIndices(files, {k \in 1..Len(files) : Contains(files[k], valid_time)})

\* sorted(list(set([f for f in file_search if year in f])))
AllFilesMatchingYear(file_search, year) ==
  SortedStrings({f \in Range(file_search) : Contains(f, year)})

\* "".join(f[time_index_start:].split(base_time + "/")) with the ending
\* stripped, for each file of the year bucket.
FileFormat(all_files_matching_year, time_index_start, base_time) ==
  [k \in 1..Len(all_files_matching_year) |->
     strip_ending_characters_from_string(
       RemoveAll(SliceFrom(all_files_matching_year[k], time_index_start),
                 base_time \o <<"/">>))]

\* time_match.index(True)
IndexOfTrue(time_match) ==
  CHOOSE k \in 1..Len(time_match) : time_match[k] /\ \A j \in 1..(k - 1) : ~time_match[j]

\* No globbed path contains valid_time: the layout is taken to be base time /
\* forecast hour, and the file of the first matching forecast hour is globbed.
SelectForecast(base_time_file, forecast_hours, valid_hour_int) ==
  IF \E k \in 1..Len(forecast_hours) : ~PyInt(forecast_hours[k]).ok
  THEN Raise("ValueError",
             forecast_hours[CHOOSE k \in 1..Len(forecast_hours) :
                              /\ ~PyInt(forecast_hours[k]).ok
                              /\ \A j \in 1..(k - 1) : PyInt(forecast_hours[j]).ok])
  ELSE IF \A k \in 1..Len(forecast_hours) : PyInt(forecast_hours[k]).val # valid_hour_int
  THEN Raise("ModelInputError", NoForecastMessage)
  ELSE Reglob(Slice(base_time_file, 0, RFind(base_time_file, <<"f">>))
              \o <<"f">>
              \o forecast_hours[IndexOfTrue([k \in 1..Len(forecast_hours) |->
                                   PyInt(forecast_hours[k]).val = valid_hour_int])]
              \o <<"*">>)

\* Several globbed paths contain valid_time.
SelectMultiple(new_valid_files, init_hours) ==
  IF init_hours # << >> THEN SetFiles(new_valid_files, new_valid_files, TRUE)
  ELSE IF new_valid_files = << >> THEN Raise("IndexError", <<"l", "i", "s", "t", " ", "i", "n", "d", "e", "x", " ", "o", "u", "t", " ", "o", "f", " ", "r", "a", "n", "g", "e">>)
  ELSE SetFiles(<<new_valid_files[1]>>, <<new_valid_files[1]>>, FALSE)

\* The branches on valid_file.
Select(valid_file, all_files_matching_year, base_time_file, forecast_hours, init_hours, valid_minus_base_seconds) ==
  IF valid_file # << >>
  THEN IF Len(valid_file) = 1 THEN SetFiles(valid_file, valid_file, TRUE)
       ELSE SelectMultiple(
              ContainingValidTime(SortedByForecastHour(forecast_hours, all_files_matching_year)),
              init_hours)
  ELSE SelectForecast(base_time_file, forecast_hours, TruncHours(valid_minus_base_seconds))

\* From the file formats of the year bucket on.
ResolveFields(valid_file, all_files_matching_year, base_time_file, base_time, valid_time_dtformat, base_time_dtformat, file_format) ==
  IF ~base_time_dtformat.ok THEN Raise("ValueError", base_time)
  ELSE Select(valid_file, all_files_matching_year, base_time_file,
              ForecastHours(file_format), InitHours(file_format),
              TotalSeconds(valid_time_dtformat, base_time_dtformat))

\* From the base time on: the text at the last occurrence of the year digits in
\* the first file of the year bucket.
ResolveBaseTime(valid_file, all_files_matching_year, fmt, valid_time_dtformat, time_index_start, base_time) ==
  ResolveFields(valid_file, all_files_matching_year, all_files_matching_year[1], base_time,
                valid_time_dtformat, Strptime(base_time, fmt),
                FileFormat(all_files_matching_year, time_index_start, base_time))

ResolveTimeIndex(valid_file, all_files_matching_year, fmt, valid_time_dtformat, time_index_start) ==
  ResolveBaseTime(valid_file, all_files_matching_year, fmt, valid_time_dtformat,
                  time_index_start,
                  Slice(all_files_matching_year[1], time_index_start,
                        time_index_start + Len(valid_time)))

\* From the year bucket on.
ResolveBucket(valid_file, all_files_matching_year, year, fmt, valid_time_dtformat) ==
  IF all_files_matching_year = << >> THEN Raise("ModelInputError", NoMatchMessage)
  ELSE ResolveTimeIndex(valid_file, all_files_matching_year, fmt, valid_time_dtformat,
                        RFind(all_files_matching_year[1], year))

ResolveYear(file_search, year, fmt, valid_time_dtformat) ==
  IF ~valid_time_dtformat.ok THEN Raise("ValueError", valid_time)
  ELSE ResolveBucket(ContainingValidTime(file_search),
                     AllFilesMatchingYear(file_search, year), year, fmt, valid_time_dtformat)

\* The body of find_valid_files for a model with a time, from the list the glob
\* returned.
Resolve(file_search) ==
  IF model_name \notin DOMAIN time_format THEN Raise("KeyError", ReprStr(model_name))
  ELSE ResolveYear(file_search,
                   Slice(valid_time, Find(time_format[model_name], <<"%", "Y">>), 4),
                   time_format[model_name],
                   Strptime(valid_time, time_format[model_name]))

\* The end of the base time + forecast branch, from the list the second glob
\* returned.
ResolveForecast(new_valid_file) ==
  IF new_valid_file # << >> THEN SetFiles(new_valid_file, new_valid_file, TRUE)
  ELSE Raise("ModelInputError", NotFoundMessage)

\* Every outcome of find_valid_files on the files on disk, over the orders in
\* which the globs may return their matches.
OutcomesOf(r, files) ==
  IF r.kind = "reglob"
  THEN {ResolveForecast(new_valid_file) : new_valid_file \in Orderings(Glob(r.pattern, files))}
  ELSE {r}

FindOutcomes(files) ==
  IF model_name = S_geogrid THEN GeogridOutcomes(files)
  ELSE UNION {OutcomesOf(Resolve(file_search), files) :
                file_search \in Orderings(Glob(SearchPath, files))}

\* The files a call finds on disk: those the last call saw, or those less one
\* that was removed in between, or none (the archive was moved away).
FilesOnDisk == {fs, {}} \cup {fs \ {f} : f \in fs}

\* valid_files is reset to None when the call starts, so a raise leaves it
\* cleared.
ClearValidFilesThenRaise ==
  /\ valid_files' = << >>
  /\ UNCHANGED <<unread_files, heap, resolved, n_read>>

\* A raise leaves the attributes as they are: every raise of find_valid_files
\* comes before its setattr calls.
RaiseEffect == UNCHANGED <<valid_files, unread_files, heap, resolved, n_read>>

\* find_valid_files on the files now on disk.
FindValidFiles ==
  /\ pc = "ready"
  /\ UNCHANGED <<pc, request, ds>>
  /\ \E files \in FilesOnDisk : \E out \in FindOutcomes(files) :
       /\ fs' = files
       /\ err' = out.err
       /\ IF out.kind = "set"
          THEN /\ heap' = IF out.alias THEN <<out.valid>> ELSE <<out.valid, out.unread>>
               /\ valid_files' = <<1>>
               /\ unread_files' = IF out.alias THEN <<1>> ELSE <<2>>
               /\ resolved' = <<out.valid>>
               /\ n_read' = 0
          ELSE RaiseEffect
  /\ last_call' = "find_valid_files"

\* --------------------------------------------------------------- read_file
\* list.pop() instead of list.pop(0): the last file is taken off.
PopLast(list) == SubSeq(list, 1, Len(list) - 1)

\* list.pop(0) on a list that is not empty.
PopHead(list) == Tail(list)

\* What xr.open_dataset may do with a path: open it, raise an IOError (which
\* read_file catches and prints), or raise another exception (which it does not
\* catch).
OpenResults == {"opened", "IOError", "ValueError"}

\* read_file: data_format is netcdf or grib2, and both branches do the same
\* with the two attributes.
ReadFile ==
  /\ pc = "ready"
  /\ last_call' = "read_file"
  /\ IF unread_files = << >>
     THEN /\ err' = Error("TypeError", <<"'", "N", "o", "n", "e", "T", "y", "p", "e", "'", " ", "o", "b", "j", "e", "c", "t", " ", "i", "s", " ", "n", "o", "t", " ", "s", "u", "b", "s", "c", "r", "i", "p", "t", "a", "b", "l", "e">>)
          /\ UNCHANGED <<heap, ds, n_read>>
     ELSE IF Deref(unread_files) = << >>
     THEN /\ err' = Error("IndexError", <<"l", "i", "s", "t", " ", "i", "n", "d", "e", "x", " ", "o", "u", "t", " ", "o", "f", " ", "r", "a", "n", "g", "e">>)
          /\ UNCHANGED <<heap, ds, n_read>>
     ELSE \E result \in OpenResults :
            IF result = "opened"
            THEN /\ ds' = <<Deref(unread_files)[1]>>
                 /\ heap' = [heap EXCEPT ![unread_files[1]] = PopHead(@)]
                 /\ n_read' = n_read + 1
                 /\ err' = NoError
            ELSE /\ err' = IF result = "IOError" THEN NoError ELSE Error(result, << >>)
                 /\ UNCHANGED <<heap, ds, n_read>>
  /\ UNCHANGED <<pc, request, valid_files, unread_files, fs, resolved>>

\* ----------------------------------------------------------- specification
Next == Construct \/ FindValidFiles \/ ReadFile

Spec == Init /\ [][Next]_vars

\* ------------------------------------------------------------------ claims
\* The terms the claims are stated in.

\* find_valid_files has just returned or raised on a constructed object.
AfterFind == pc = "ready" /\ last_call = "find_valid_files"

\* The model reads a time out of file names.
TimeBearing == model_name \in {S_wrf, S_rrfs, S_hrrr}

\* A time-bearing model with a valid_time its time format parses.
ParseableRequest == TimeBearing /\ Strptime(valid_time, time_format[model_name]).ok

\* What the glob over the search path returns, as a set.
Globbed == Glob(SearchPath, fs)

\* The globbed paths that contain the requested valid_time string.
DirectMatches == {f \in Globbed : Contains(f, valid_time)}

\* The file name of a path, without a known ending.
NameOf(path) ==
  strip_ending_characters_from_string(SliceFrom(path, RFind(path, <<"/">>) + 1))

\* The text after the last "f" of the file name (empty without one).
ForecastHourText(path) ==
  IF RFind(NameOf(path), <<"f">>) > 0
  THEN SliceFrom(NameOf(path), RFind(NameOf(path), <<"f">>) + 1) ELSE << >>

\* The two characters before the last "z" of the file name (empty without one).
InitHourText(path) ==
  IF RFind(NameOf(path), <<"z">>) > 0
  THEN Slice(NameOf(path), RFind(NameOf(path), <<"z">>) - 2, RFind(NameOf(path), <<"z">>))
  ELSE << >>

HasForecastHour(path) == PyInt(ForecastHourText(path)).ok

ForecastHour(path) == PyInt(ForecastHourText(path)).val

HasInitHour(path) == PyInt(InitHourText(path)).ok

InitHour(path) == PyInt(InitHourText(path)).val

\* The hour field of the requested valid_time (%Y is four characters of it).
TargetHour ==
  PyInt(Slice(valid_time, Find(time_format[model_name], <<"%", "H">>) + 2,
              Find(time_format[model_name], <<"%", "H">>) + 4)).val

\* The year bucket of the globbed paths, sorted.
YearBucket ==
  AllFilesMatchingYear(SortedStrings(Globbed),
                       Slice(valid_time, Find(time_format[model_name], <<"%", "Y">>), 4))

\* The base time: the text at the year digits of the first file of the bucket.
BaseTimeText ==
  Slice(YearBucket[1], RFind(YearBucket[1], Slice(valid_time, 0, 4)),
        RFind(YearBucket[1], Slice(valid_time, 0, 4)) + Len(valid_time))

\* The forecast hour of path, added to the base time, is the valid time.
ReachesValidTime(path) ==
  /\ HasForecastHour(path)
  /\ ForecastHour(path) * 3600 =
       TotalSeconds(Strptime(valid_time, time_format[model_name]),
                    Strptime(BaseTimeText, time_format[model_name]))

\* A base-time / forecast-hour layout: no globbed path contains valid_time,
\* every globbed path carries the year and a forecast hour, and the first one
\* a base time.
ForecastLayout ==
  /\ ParseableRequest
  /\ Globbed # {}
  /\ DirectMatches = {}
  /\ \A f \in Globbed : HasForecastHour(f) /\ Contains(f, Slice(valid_time, 0, 4))
  /\ Strptime(BaseTimeText, time_format[model_name]).ok

\* s is what is left of t after its first n elements.
IsRestAfter(s, t, n) == n <= Len(t) /\ s = SubSeq(t, n + 1, Len(t))

\* C1: whenever exactly one globbed path contains the requested valid_time
\* (time-bearing model, parseable valid_time), find_valid_files does not raise
\* and valid_files is the one-element list of that path, whatever the other
\* globbed paths are.
C1_DirectMatchAccepted ==
  (AfterFind /\ ParseableRequest /\ Cardinality(DirectMatches) = 1)
    => /\ err = NoError
       /\ valid_files # << >>
       /\ \E f \in DirectMatches : Deref(valid_files) = <<f>>

\* C2: right after a find_valid_files that set N >= 1 files unread_files equals
\* valid_files, and after one successful read_file unread_files has N - 1
\* files while valid_files still holds all N in their order.
C2_ReadLeavesValidFiles ==
  /\ (AfterFind /\ err = NoError /\ Len(Deref(valid_files)) >= 1)
       => Deref(unread_files) = Deref(valid_files)
  /\ (pc = "ready" /\ resolved # << >> /\ n_read = 1 /\ Len(resolved[1]) >= 1)
       => /\ Len(Deref(unread_files)) = Len(resolved[1]) - 1
          /\ Deref(valid_files) = resolved[1]

\* C3: when every globbed file name carries an init hour and a forecast hour
\* (and the direct match does not settle on a single path), a find_valid_files
\* that returns has put into valid_files exactly the globbed paths with
\* init hour + forecast hour = the hour of valid_time.
C3_InitPlusForecastSelected ==
  (/\ AfterFind /\ ParseableRequest /\ err = NoError
   /\ Globbed # {}
   /\ Cardinality(DirectMatches) # 1
   /\ \A f \in Globbed : HasInitHour(f) /\ HasForecastHour(f))
    => Range(Deref(valid_files)) =
         {f \in Globbed : InitHour(f) + ForecastHour(f) = TargetHour}

\* C4: in a base-time / forecast-hour layout where exactly one file's forecast
\* hour reaches the valid time from the base time, find_valid_files sets
\* valid_files to that one path and to no other.
C4_OnlyTheReachingFile ==
  (AfterFind /\ ForecastLayout
   /\ Cardinality({f \in Globbed : ReachesValidTime(f)}) = 1)
    => /\ err = NoError
       /\ valid_files # << >>
       /\ \E f \in Globbed : ReachesValidTime(f) /\ Deref(valid_files) = <<f>>

\* C5: in a base-time / forecast-hour layout where more than one file's
\* forecast hour reaches the valid time, find_valid_files raises and sets
\* neither valid_files nor unread_files.
C5_AmbiguousForecastRaises ==
  (AfterFind /\ ForecastLayout
   /\ Cardinality({f \in Globbed : ReachesValidTime(f)}) > 1)
    => /\ err # NoError
       /\ valid_files = << >>
       /\ unread_files = << >>

\* C6: whenever find_valid_files has set valid_files to more than one path, the
\* paths are in ascending order of the forecast hour in their own file names.
C6_AscendingForecastHours ==
  (AfterFind /\ err = NoError /\ Len(Deref(valid_files)) > 1)
    => \A i, j \in 1..Len(Deref(valid_files)) :
         (/\ i < j
          /\ HasForecastHour(Deref(valid_files)[i])
          /\ HasForecastHour(Deref(valid_files)[j]))
           => ForecastHour(Deref(valid_files)[i]) <= ForecastHour(Deref(valid_files)[j])

\* The glob of a parseable request on a time-bearing model returned nothing.
EmptyGlob == AfterFind /\ ParseableRequest /\ Globbed = {}

\* C7, as claimed: when the glob returns no file, find_valid_files raises
\* ModelInputError with a message that mentions the constructed search path.
C7_MessageMentionsSearchPath ==
  EmptyGlob => err.type = "ModelInputError" /\ Contains(err.msg, SearchPath)

\* C7, as amended: when the glob returns no file, find_valid_files raises
\* ModelInputError with a message that gives main_dir, sub_dir and valid_time,
\* the inputs the search path is built from.
C7_MessageNamesInputs ==
  EmptyGlob
    => /\ err.type = "ModelInputError"
       /\ Contains(err.msg, <<"'", "m", "a", "i", "n", "_", "d", "i", "r", "'", " ", "=", " ">> \o main_dir)
       /\ Contains(err.msg, <<"'", "s", "u", "b", "_", "d", "i", "r", "'", " ", "=", " ">> \o sub_dir)
       /\ Contains(err.msg, <<"'", "v", "a", "l", "i", "d", "_", "t", "i", "m", "e", "'", " ", "=", " ">> \o valid_time)

C7_Witness == EmptyGlob /\ err.type = "ModelInputError" /\ fs # {}

\* C8: after a find_valid_files that set the lists and any read_file calls,
\* unread_files is a suffix of what valid_files held right after that find:
\* the files are consumed from the front, in order, none skipped or repeated.
C8_UnreadIsSuffix ==
  resolved # << >>
    => /\ unread_files # << >>
       /\ IsRestAfter(Deref(unread_files), resolved[1], n_read)

C8_Witness ==
  /\ resolved # << >>
  /\ Len(resolved[1]) >= 2
  /\ n_read = 1
  /\ last_call = "read_file"
  /\ Deref(unread_files) = Tail(resolved[1])

\* The geogrid files the call looks at: those of main_dir, else those of the
\* subdirectories.
GeogridFound ==
  IF Glob(SearchPath, fs) # {} THEN Glob(SearchPath, fs)
  ELSE Glob(GeogridSubdirSearchPath, fs)

\* C9: for wrf-geogrid the "Multiple geogrid files" error is raised only when
\* more than one file matches; exactly one file sets valid_files and
\* unread_files to that file; no file at all is not reported as multiple files.
C9_MultipleOnlyWhenSeveral ==
  (AfterFind /\ model_name = S_geogrid)
    => /\ (err # NoError /\ StartsWith(err.msg, <<"M", "u", "l", "t", "i", "p", "l", "e", " ", "g", "e", "o", "g", "r", "i", "d", " ", "f", "i", "l", "e", "s", " ", "f", "o", "u", "n", "d">>))
            => Cardinality(GeogridFound) > 1
       /\ Cardinality(GeogridFound) = 1
            => /\ err = NoError
               /\ \E f \in GeogridFound :
                    Deref(valid_files) = <<f>> /\ Deref(unread_files) = <<f>>

\* C10: a model name that, stripped and lower-cased, is not wrf, wrf-geogrid,
\* rrfs or hrrr, or a data format that is not netcdf or grib2, makes the
\* constructor raise ModelInputError; so a constructed object has a model with
\* a time-format entry.
C10_UnsupportedInputsRejected ==
  pc # "new"
    => /\ (\/ model_name \notin {S_wrf, S_geogrid, S_rrfs, S_hrrr}
           \/ data_format \notin {S_netcdf, S_grib2})
            => pc = "dead" /\ err.type = "ModelInputError"
       /\ pc = "ready" => model_name \in DOMAIN time_format


\* A read_file step in which the open was tried and did not succeed: there was
\* a head to open and no read is counted.
FailedOpen ==
  /\ last_call' = "read_file"
  /\ unread_files # << >>
  /\ Deref(unread_files) # << >>
  /\ n_read' = n_read

\* A read_file step in which the open succeeded.
SuccessfulOpen == last_call' = "read_file" /\ n_read' = n_read + 1

\* C11: a read_file whose open fails does not raise and changes neither
\* unread_files nor valid_files nor ds; a read_file whose open succeeds takes
\* the head off unread_files and makes ds the dataset of that head.
C11_FailedOpenIsNoOp ==
  [][/\ FailedOpen
        => /\ err' = NoError
           /\ UNCHANGED <<unread_files, valid_files, heap, ds>>
     /\ SuccessfulOpen
        => /\ ds' = <<Deref(unread_files)[1]>>
           /\ unread_files' = unread_files
           /\ Deref(unread_files)' = Tail(Deref(unread_files))]_vars

\* The year bucket is not empty and no file name in it has a forecast-hour
\* field (text after a last "f").
NoForecastField ==
  /\ YearBucket # << >>
  /\ \A k \in 1..Len(YearBucket) : ForecastHourText(YearBucket[k]) = << >>

\* C12: when no file of the non-empty year bucket carries a forecast-hour field
\* and zero or several globbed paths contain valid_time, find_valid_files ends
\* in ModelInputError: not in another exception and not in a result.
C12_MissingForecastFieldRaises ==
  (AfterFind /\ ParseableRequest /\ NoForecastField /\ Cardinality(DirectMatches) # 1)
    => err.type = "ModelInputError"

\* The model has a search_path_modification entry with a prefix or a divider.
Configured == model_name \in DOMAIN search_path_modification

\* One part of the model's search_path_modification entry; a part the entry
\* lacks adds nothing to the pattern.
PathPart(key) ==
  IF key \in DOMAIN search_path_modification[model_name]
  THEN search_path_modification[model_name][key] ELSE << >>

\* The pattern built from the model's search_path_modification entry.
ConfiguredSearchPath ==
  main_dir \o PathPart("main_dir_sub_dir_div") \o sub_dir \o PathPart("sub_dir_file_div")
  \o PathPart("prefix")
  \o (IF search_path_modification[model_name].use_domain THEN domain ELSE << >>)
  \o PathPart("suffix")

\* The file name of a path.
BaseName(path) == SliceFrom(path, RFind(path, <<"/">>) + 1)

\* C13: the pattern find_valid_files globs is the one built from the model's
\* search_path_modification entry, and every globbed file name starts with the
\* configured prefix.
C13_SearchPathFromConfiguration ==
  (AfterFind /\ Configured)
    => /\ SearchPath = ConfiguredSearchPath
       /\ \A f \in Globbed : StartsWith(BaseName(f), PathPart("prefix"))

\* A find_valid_files step that raises.
FailedFind == last_call' = "find_valid_files" /\ err' # NoError

\* C14: a find_valid_files that raises leaves valid_files, unread_files (the
\* attributes and the lists they refer to) and ds as they were, and the two
\* attributes are never one set and the other not.
C14_FailedFindKeepsAttributes ==
  [][/\ FailedFind => UNCHANGED <<valid_files, unread_files, heap, ds>>
     /\ (valid_files' = << >>) <=> (unread_files' = << >>)]_vars

\* A call has raised on an object that holds the result of an earlier call.
C14_Witness ==
  /\ AfterFind
  /\ err # NoError
  /\ valid_files # << >>
  /\ unread_files # << >>
  /\ Deref(valid_files) # << >>
====
